---- MODULE Spec2Model ----
(***************************************************************************)
(* Model of the pronunciation_translator package: the character-level      *)
(* Tokenizer (tokenizers/tokenizer.py) and the ipa-dict loader             *)
(* (data_adapters/ipa_dict_adapter.py).                                    *)
(*                                                                         *)
(* A Python str is modelled as a sequence of one-character strings, so     *)
(* that ''.join, str.strip, str.split and the regular expression of the    *)
(* loader are computed character by character.                             *)
(***************************************************************************)
EXTENDS Integers, Sequences, FiniteSets, TLC

(***************************************************************************)
(* Bounds of the tokenizer model.                                          *)
(***************************************************************************)
MaxVocab == 2
MaxText == 2
MaxIds == 2

(***************************************************************************)
(* Strings.                                                                *)
(***************************************************************************)
PAD_LIT == <<"<", "P", "A", "D", ">">>
SOS_LIT == <<"<", "S", "O", "S", ">">>
EOS_LIT == <<"<", "E", "O", "S", ">">>
UNK_LIT == <<"<", "U", "N", "K", ">">>

Keys == {"pad", "sos", "eos", "unk"}

\* the default of config.get("special_tokens", {...})
DefaultSpecialTokens ==
    [pad |-> PAD_LIT, sos |-> SOS_LIT, eos |-> EOS_LIT, unk |-> UNK_LIT]

SeqsUpTo(S, n) == UNION {[1..k -> S] : k \in 0..n}

Range(s) == {s[i] : i \in 1..Len(s)}

\* ''.join(parts)
RECURSIVE Join(_)
Join(parts) ==
    IF parts = <<>> THEN <<>> ELSE Head(parts) \o Join(Tail(parts))

(***************************************************************************)
(* The persisted vocabulary files a Tokenizer may be constructed from.     *)
(*   exists     : the file is there                                        *)
(*   hasVocab   : the JSON object has a "vocab" field                      *)
(*   vocab      : its value, a list of strings                             *)
(*   hasSpecial : the JSON object has a "special_tokens" field             *)
(*   present    : the keys of special_tokens                               *)
(*   special    : its values (<<>> for a key that is not present)          *)
(***************************************************************************)
TextChars == {"a", "b", "c"}

VocabEntries == {<<"a">>, <<"b">>, UNK_LIT}

SpecialChoices ==
    [pad |-> {PAD_LIT, <<"a">>}, sos |-> {SOS_LIT},
     eos |-> {EOS_LIT}, unk |-> {UNK_LIT, <<"a">>}]

SpecialTables ==
    {st \in [present : SUBSET Keys,
              special : [Keys -> {PAD_LIT, SOS_LIT, EOS_LIT, UNK_LIT, <<"a">>, <<>>}]] :
        \A k \in Keys :
            IF k \in st.present THEN st.special[k] \in SpecialChoices[k]
                                ELSE st.special[k] = <<>>}

NoSpecial == [present |-> {}, special |-> [k \in Keys |-> <<>>]]

AbsentFile ==
    [exists |-> FALSE, hasVocab |-> FALSE, vocab |-> <<>>,
     hasSpecial |-> FALSE, present |-> {}, special |-> NoSpecial.special]

Configs ==
    {AbsentFile}
    \cup {[exists |-> TRUE, hasVocab |-> TRUE, vocab |-> v,
           hasSpecial |-> TRUE, present |-> st.present, special |-> st.special] :
            v \in SeqsUpTo(VocabEntries, MaxVocab), st \in SpecialTables}
    \cup {[exists |-> TRUE, hasVocab |-> FALSE, vocab |-> <<>>,
           hasSpecial |-> TRUE, present |-> st.present, special |-> st.special] :
            st \in SpecialTables}
    \cup {[exists |-> TRUE, hasVocab |-> TRUE, vocab |-> v,
           hasSpecial |-> FALSE, present |-> {}, special |-> NoSpecial.special] :
            v \in SeqsUpTo(VocabEntries, MaxVocab)}
    \cup {[exists |-> TRUE, hasVocab |-> FALSE, vocab |-> <<>>,
           hasSpecial |-> FALSE, present |-> {}, special |-> NoSpecial.special]}

Texts == SeqsUpTo(TextChars, MaxText)

\* ids a caller may hand to decode: one below and one above every table
IdValues == (-1) .. (4 + MaxVocab)
IdInputs == SeqsUpTo(IdValues, MaxIds)

VARIABLES
    config,     \* the persisted vocabulary file
    tstatus,    \* "new", "ok", "FileNotFoundError", "KeyError"
    tok,        \* the Tokenizer object
    last,       \* "none", "encode", "decode", "encode_decode"
    text,       \* argument of the last encode
    add,        \* add_special_tokens of the last encode
    ids,        \* result of the last encode / argument of the last decode
    skip,       \* skip_special_tokens of the last decode
    out,        \* result of the last decode
    data_path,      \* what self.data_path names: nothing, a file, a directory
    language_code,  \* self.language_code of the IPADictAdapter
    lpc,            \* position of load_data, or how it ended
    files_to_process,
    fi,             \* index in files_to_process of the file being read
    line_num,       \* number of the last line read of that file
    language,       \* language of the file being read
    data_rows,      \* the list data_rows of load_data
    origin,         \* for each row, the file index and line number it is from
    warnings        \* the warnings printed so far

VARIABLES
    bstatus,    \* "new", "ok", or "ValueError" of TokenizerBuilder(...)
    builder,    \* the TokenizerBuilder object
    b_args,     \* the arguments it was constructed with
    b_call,     \* how the last build call ended: "none", "returned", "ValueError"
    b_input,    \* the texts of the last build call that returned
    b_earlier   \* the characters of the texts of the calls before that one

VARIABLES
    self_data,  \* self._data of a data adapter: None or the cached frame
    g_force,    \* force_reload of the last get_data call
    g_last,     \* how the last get_data call ended and what it returned
    g_calls     \* the number of get_data calls so far

VARIABLES
    instances,  \* the Tokenizer objects in use, by name
    inst_cfg,   \* the file each of them was constructed from
    calls       \* for each caller, the encode or decode call it is in

tokVars == <<config, tstatus, tok, last, text, add, ids, skip, out>>

loadVars == <<data_path, language_code, lpc, files_to_process, fi, line_num,
              language, data_rows, origin, warnings>>

buildVars == <<bstatus, builder, b_args, b_call, b_input, b_earlier>>

getVars == <<self_data, g_force, g_last, g_calls>>

callVars == <<instances, inst_cfg, calls>>

vars == <<config, tstatus, tok, last, text, add, ids, skip, out,
          data_path, language_code, lpc, files_to_process, fi, line_num,
          language, data_rows, origin, warnings,
          bstatus, builder, b_args, b_call, b_input, b_earlier,
          self_data, g_force, g_last, g_calls,
          instances, inst_cfg, calls>>

(***************************************************************************)
(* Tokenizer.__init__                                                      *)
(***************************************************************************)
\* self.special_tokens = config.get("special_tokens", {...})
SpecialOf(cfg) ==
    IF cfg.hasSpecial THEN [present |-> cfg.present, special |-> cfg.special]
    ELSE [present |-> Keys, special |-> DefaultSpecialTokens]

\* self.vocab: the four special tokens, then config["vocab"]
FullVocab(cfg) ==
    LET st == SpecialOf(cfg).special
    IN  <<st["pad"], st["sos"], st["eos"], st["unk"]>> \o cfg.vocab

\* variant: ids counted from one, as enumerate(vocab, 1) would
CharToId_OneBased(vocab) ==
    [ch \in Range(vocab) |->
        CHOOSE i \in 1..Len(vocab) :
            /\ vocab[i] = ch
            /\ \A j \in 1..Len(vocab) : vocab[j] = ch => j <= i]

\* {char: idx for idx, char in enumerate(vocab)}: a later index overwrites
CharToId(vocab) ==
    [ch \in Range(vocab) |->
        CHOOSE i \in 0..(Len(vocab) - 1) :
            /\ vocab[i + 1] = ch
            /\ \A j \in 0..(Len(vocab) - 1) : vocab[j + 1] = ch => j <= i]

\* variant: the reverse table is built from char_to_id, so a repeated
\* entry leaves its earlier positions without an entry
IdToChar_FromCharToId(vocab) ==
    [i \in {CharToId(vocab)[ch] : ch \in Range(vocab)} |-> vocab[i + 1]]

\* {idx: char for idx, char in enumerate(vocab)}
IdToChar(vocab) == [i \in 0..(Len(vocab) - 1) |-> vocab[i + 1]]

EmptyTok ==
    [special_tokens |-> NoSpecial.special, vocab |-> <<>>,
     char_to_id |-> CharToId(<<>>), id_to_char |-> IdToChar(<<>>),
     pad_id |-> 0, sos_id |-> 0, eos_id |-> 0, unk_id |-> 0]

\* variant: config.get("vocab", []) instead of config["vocab"]
InitOutcome_VocabOptional(cfg) ==
    IF ~cfg.exists THEN "FileNotFoundError"
    ELSE IF SpecialOf(cfg).present # Keys THEN "KeyError"
    ELSE "ok"

\* the exception __init__ raises, or "ok"
InitOutcome(cfg) ==
    IF ~cfg.exists THEN "FileNotFoundError"
    ELSE IF SpecialOf(cfg).present # Keys THEN "KeyError"
    ELSE IF ~cfg.hasVocab THEN "KeyError"
    ELSE "ok"

NewTokenizer(cfg) ==
    LET st == SpecialOf(cfg).special
        v  == FullVocab(cfg)
        c2i == CharToId(v)
    IN  [special_tokens |-> st, vocab |-> v,
         char_to_id |-> c2i, id_to_char |-> IdToChar(v),
         pad_id |-> c2i[st["pad"]], sos_id |-> c2i[st["sos"]],
         eos_id |-> c2i[st["eos"]], unk_id |-> c2i[st["unk"]]]

vocab_size(t) == Len(t.vocab)

(***************************************************************************)
(* Tokenizer.encode / Tokenizer.decode                                     *)
(***************************************************************************)
\* self.char_to_id.get(char, self.unk_id)
CharId(t, ch) ==
    IF <<ch>> \in DOMAIN t.char_to_id THEN t.char_to_id[<<ch>>] ELSE t.unk_id

\* variant: the trailing ids.append(self.eos_id) is lost
encode_NoEos(t, txt, add_special_tokens) ==
    LET body == [i \in 1..Len(txt) |-> CharId(t, txt[i])]
    IN  IF add_special_tokens THEN <<t.sos_id>> \o body ELSE body

encode(t, txt, add_special_tokens) ==
    LET body == [i \in 1..Len(txt) |-> CharId(t, txt[i])]
    IN  IF add_special_tokens THEN <<t.sos_id>> \o body \o <<t.eos_id>>
        ELSE body

\* variant: id_to_char.get(token_id, ''), an id without entry gives nothing
TokenOf_NoFallback(t, token_id) ==
    IF token_id \in DOMAIN t.id_to_char THEN t.id_to_char[token_id]
    ELSE <<>>

\* self.id_to_char.get(token_id, self.special_tokens["unk"])
TokenOf(t, token_id) ==
    IF token_id \in DOMAIN t.id_to_char THEN t.id_to_char[token_id]
    ELSE t.special_tokens["unk"]

\* variant: skip_special_tokens is ignored, nothing is skipped
RECURSIVE DecodeChars_NoSkip(_, _, _)
DecodeChars_NoSkip(t, idseq, skip_special_tokens) ==
    IF idseq = <<>> THEN <<>>
    ELSE <<TokenOf(t, Head(idseq))>>
            \o DecodeChars_NoSkip(t, Tail(idseq), skip_special_tokens)

\* the list chars built by the loop of decode
RECURSIVE DecodeChars(_, _, _)
DecodeChars(t, idseq, skip_special_tokens) ==
    IF idseq = <<>> THEN <<>>
    ELSE IF skip_special_tokens /\ Head(idseq) \in {t.pad_id, t.sos_id, t.eos_id}
         THEN DecodeChars(t, Tail(idseq), skip_special_tokens)
         ELSE <<TokenOf(t, Head(idseq))>>
                \o DecodeChars(t, Tail(idseq), skip_special_tokens)

decode(t, idseq, skip_special_tokens) ==
    Join(DecodeChars(t, idseq, skip_special_tokens))

(***************************************************************************)
(* Bounds of the loader model.                                             *)
(***************************************************************************)
MaxField == 6
MaxLines == 2
MaxFiles == 2

(***************************************************************************)
(* str.strip, str.split, str.endswith                                      *)
(***************************************************************************)
TAB == "\t"
SP == " "
SLASH == "/"

\* the characters str.strip() removes; a line here never holds the newline
\* that ends it in the file, strip() removes that one too
Whitespace == {SP, TAB}

RECURSIVE LStrip(_)
LStrip(s) ==
    IF s # <<>> /\ Head(s) \in Whitespace THEN LStrip(Tail(s)) ELSE s

RECURSIVE RStrip(_)
RStrip(s) ==
    IF s # <<>> /\ s[Len(s)] \in Whitespace
    THEN RStrip(SubSeq(s, 1, Len(s) - 1)) ELSE s

\* s.strip()
Strip(s) == RStrip(LStrip(s))

\* s.split(sep): the fields between the occurrences of sep, always one more
\* than there are separators
RECURSIVE Split(_, _)
Split(s, sep) ==
    IF \A i \in 1..Len(s) : s[i] # sep THEN <<s>>
    ELSE LET k == CHOOSE i \in 1..Len(s) :
                    s[i] = sep /\ \A j \in 1..(i - 1) : s[j] # sep
         IN  <<SubSeq(s, 1, k - 1)>> \o Split(SubSeq(s, k + 1, Len(s)), sep)

EndsWith(s, suffix) ==
    /\ Len(s) >= Len(suffix)
    /\ SubSeq(s, Len(s) - Len(suffix) + 1, Len(s)) = suffix

(***************************************************************************)
(* pathlib: Path.stem and glob("*.txt")                                    *)
(***************************************************************************)
\* name.rfind('.'), counted from one; 0 when there is no dot
LastDot(name) ==
    IF \A i \in 1..Len(name) : name[i] # "." THEN 0
    ELSE CHOOSE i \in 1..Len(name) :
            name[i] = "." /\ \A j \in (i + 1)..Len(name) : name[j] # "."

\* PurePath.stem: the name without its last suffix
Stem(name) ==
    LET i == LastDot(name)
    IN  IF 1 < i /\ i < Len(name) THEN SubSeq(name, 1, i - 1) ELSE name

DOT_TXT == <<".", "t", "x", "t">>

\* the entries of a directory that match "*.txt", in listing order
Glob(entries) ==
    LET IsTxt(e) == EndsWith(e.name, DOT_TXT)
    IN  SelectSeq(entries, IsTxt)

(***************************************************************************)
(* IPADictAdapter._extract_language_code, _parse_ipa_pronunciations        *)
(***************************************************************************)
NoCode == [given |-> FALSE, code |-> <<>>]
Code(c) == [given |-> TRUE, code |-> c]

\* self.language_code if it is truthy, else the stem of the file name
ExtractLanguageCode(lc, name) ==
    IF lc.given /\ lc.code # <<>> THEN lc.code ELSE Stem(name)

\* the number of characters before the first "/" of s (all, if none)
RECURSIVE NonSlashRun(_)
NonSlashRun(s) ==
    IF s = <<>> \/ Head(s) = SLASH THEN 0 ELSE 1 + NonSlashRun(Tail(s))

\* re.findall(r'/([^/]+)/', s): leftmost non-overlapping matches of a slash,
\* one or more non-slash characters and a slash; the list of their groups
RECURSIVE FindAll(_)
FindAll(s) ==
    IF s = <<>> THEN <<>>
    ELSE IF Head(s) # SLASH THEN FindAll(Tail(s))
    ELSE LET rest == Tail(s)
             n == NonSlashRun(rest)
         IN  IF n >= 1 /\ n < Len(rest)
             THEN <<SubSeq(rest, 1, n)>>
                    \o FindAll(SubSeq(rest, n + 2, Len(rest)))
             ELSE FindAll(rest)

\* variant: the first pronunciation is returned, matches[0]
ParseIpaPronunciations_First(ipa_string) ==
    LET matches == FindAll(Strip(ipa_string))
    IN  IF matches # <<>> THEN Strip(matches[1]) ELSE <<>>

\* variant: the last pronunciation is returned as matched, without .strip()
ParseIpaPronunciations_NoStrip(ipa_string) ==
    LET matches == FindAll(Strip(ipa_string))
    IN  IF matches # <<>> THEN matches[Len(matches)] ELSE <<>>

\* _parse_ipa_pronunciations
ParseIpaPronunciations(ipa_string) ==
    LET matches == FindAll(Strip(ipa_string))
    IN  IF matches # <<>> THEN Strip(matches[Len(matches)]) ELSE <<>>

(***************************************************************************)
(* The body of the line loop of load_data.                                 *)
(*   kind: "blank", "malformed", "no_ipa" (nothing appended) or "row"      *)
(***************************************************************************)
ParseLine(raw, lang) ==
    LET line == Strip(raw)
        parts == Split(line, TAB)
    IN  IF line = <<>> THEN [kind |-> "blank"]
        ELSE IF Len(parts) # 2 THEN [kind |-> "malformed"]
        ELSE LET ipa == ParseIpaPronunciations(parts[2])
             IN  IF ipa = <<>> THEN [kind |-> "no_ipa"]
                 ELSE [kind |-> "row",
                       row |-> [word |-> Strip(parts[1]), ipa |-> ipa,
                                language |-> lang]]

(***************************************************************************)
(* TokenizerBuilder.build_from_data: the characters of a column.           *)
(***************************************************************************)
\* char_set after the loop: the characters of the non-empty texts
CharSet(texts) ==
    UNION {Range(texts[i]) : i \in {j \in 1..Len(texts) : texts[j] # <<>>}}

(***************************************************************************)
(* The paths an IPADictAdapter may be given.                               *)
(***************************************************************************)
Concat3(a, b, c) == a \o b \o c

FieldChars == {"a", "b", SLASH, SP}

\* what stands before and after the pronunciation field of a line
Heads ==
    {<<>>, <<"x">>, <<"x", TAB>>, <<TAB>>, <<TAB, "x", TAB>>,
     <<"x", TAB, TAB>>, <<SP, "x", SP, TAB>>}
Tails == {<<>>, <<TAB>>}

\* every line made of a head, a pronunciation field of up to MaxField
\* characters and a tail
FieldLines ==
    {Concat3(h, f, t) : h \in Heads, f \in SeqsUpTo(FieldChars, MaxField),
                        t \in Tails}

\* lines of the files of the multi-line and multi-file loads
L_a     == <<"x", TAB, SLASH, "a", SLASH>>
L_ab    == <<"y", TAB, SLASH, "a", SLASH, ",", SP, SLASH, "b", SLASH>>
L_abc   == <<"x", TAB, SLASH, "a", SLASH, ",", SP, SLASH, "b", SLASH,
             ",", SP, SLASH, "c", SLASH>>
L_notab == <<"x", SP, SLASH, "a", SLASH>>
L_tabs  == <<"x", TAB, "y", TAB, SLASH, "a", SLASH>>
L_trail == <<"x", TAB, SLASH, "a", SLASH, TAB>>
L_lead  == <<TAB, SLASH, "a", SLASH>>
L_nospan == <<"x", TAB, "a">>
L_blank == <<SP>>
L_wsend == <<"x", TAB, SLASH, "a", SLASH, SP, SLASH, SP, SLASH>>

FileLines ==
    {L_a, L_ab, L_abc, L_notab, L_tabs, L_trail, L_lead, L_nospan, L_blank,
     L_wsend}
DirLines == {L_a, L_tabs}

N_de    == <<"d", "e", ".", "t", "x", "t">>
N_en_US == <<"e", "n", "_", "U", "S", ".", "t", "x", "t">>
N_notes == <<"n", "o", "t", "e", "s", ".", "m", "d">>

FileNames == {N_de, N_en_US}
DirNames == {N_de, N_en_US, N_notes}

LanguageCodes == {NoCode, Code(<<>>), Code(<<"f", "r">>)}

MissingPath == [kind |-> "missing", entries |-> <<>>]

\* a path that is a file: one entry, the file itself
FilePaths(names, contents) ==
    {[kind |-> "file", entries |-> <<[name |-> n, lines |-> c]>>] :
        n \in names, c \in contents}

\* a path that is a directory: its files in listing order, names distinct
DirPaths ==
    {[kind |-> "dir", entries |-> es] :
        es \in {e \in SeqsUpTo([name : DirNames,
                                lines : SeqsUpTo(DirLines, MaxLines)], MaxFiles) :
                    \A i, j \in 1..Len(e) : e[i].name = e[j].name => i = j}}

(***************************************************************************)
(* TokenizerBuilder: the texts it is given and the vocabulary it extracts. *)
(***************************************************************************)
MaxTexts == 2

LT == "<"

\* the code point of a character, ord(c)
Ord(c) ==
    CASE c = LT  -> 60
      [] c = "A" -> 65
      [] c = "a" -> 97
      [] c = "b" -> 98

\* an element of a list of texts or of a column: None or a str
NoneText == [none |-> TRUE, s |-> <<>>]
Str(s) == [none |-> FALSE, s |-> s]

\* "if text": None and "" are falsy
Truthy(t) == ~t.none /\ t.s # <<>>

BuilderTexts ==
    {NoneText, Str(<<>>), Str(<<"a", "b">>), Str(<<"b", "a">>), Str(<<LT, "A">>)}

TextLists == SeqsUpTo(BuilderTexts, MaxTexts)

\* a DataFrame, as far as build_from_data looks at it: its column names and
\* the values of the column asked for
Frames == {[columns |-> cs, values |-> l] :
            cs \in {{"word"}, {"word", "ipa"}}, l \in TextLists}

Modalities == {"spelling", "ipa", "phonemes"}

Languages == {<<"d", "e">>}

\* char_set after the loop "for text in texts: if text: char_set.update(text)"
BuilderCharSet(texts) ==
    UNION {Range(texts[i].s) : i \in {j \in 1..Len(texts) : Truthy(texts[j])}}

\* variant: the characters are listed from the highest code point down
Sorted_Descending(chars) ==
    LET RECURSIVE Desc(_)
        Desc(S) ==
            IF S = {} THEN <<>>
            ELSE LET m == CHOOSE x \in S : \A y \in S : Ord(y) <= Ord(x)
                 IN  <<<<m>>>> \o Desc(S \ {m})
    IN  Desc(chars)

\* sorted(list(char_set)): one-character strings, ascending by code point
Sorted(chars) ==
    LET RECURSIVE Asc(_)
        Asc(S) ==
            IF S = {} THEN <<>>
            ELSE LET m == CHOOSE x \in S : \A y \in S : Ord(x) <= Ord(y)
                 IN  <<<<m>>>> \o Asc(S \ {m})
    IN  Asc(chars)

\* variant: char_set starts from the characters of the vocabulary so far
BuildVocab_Merge(self, texts) ==
    Sorted(BuilderCharSet(texts) \cup {e[1] : e \in Range(self.vocab)})

\* the value given to self.vocab by a build call on self
BuildVocab(self, texts) == Sorted(BuilderCharSet(texts))

NoBuilder ==
    [language |-> <<>>, modality |-> "", vocab |-> <<>>,
     special_tokens |-> DefaultSpecialTokens]

BuildIdle ==
    /\ bstatus = "idle"
    /\ builder = NoBuilder
    /\ b_args = [language |-> <<>>, modality |-> ""]
    /\ b_call = "none"
    /\ b_input = <<>>
    /\ b_earlier = {}

(***************************************************************************)
(* BaseDataAdapter.get_data over the abstract load_data: what load_data of *)
(* an adapter may hand back, and the validation of IPADictAdapter.         *)
(***************************************************************************)
MaxCalls == 3

\* required_columns of validate_data
RequiredColumns == {"word", "ipa", "language"}

\* self._data = None
NoData == [none |-> TRUE, columns |-> {}, content |-> ""]

\* a frame: its columns and what it holds
DataFrames ==
    {[none |-> FALSE, columns |-> cs, content |-> d] :
        cs \in SUBSET RequiredColumns, d \in {"d1", "d2"}}

\* how a load_data call may end: with a frame, or with an exception
LoadOutcomes ==
    {[raised |-> FALSE, frame |-> f] : f \in DataFrames}
        \cup {[raised |-> TRUE, frame |-> NoData]}

\* validate_data(data)['is_valid']
IsValid(data) == RequiredColumns \ data.columns = {}

NoCall == [kind |-> "none", value |-> NoData]

GetIdle ==
    /\ self_data = NoData
    /\ g_force = FALSE
    /\ g_last = NoCall
    /\ g_calls = 0

(***************************************************************************)
(* Several callers of encode and decode on several Tokenizer objects.      *)
(***************************************************************************)
Instances == {"t1", "t2"}

Callers == {"c1", "c2"}

\* vocabulary files that construct: one character, two characters, and one
\* character listed twice
CallConfigs ==
    {[exists |-> TRUE, hasVocab |-> TRUE, vocab |-> v,
      hasSpecial |-> FALSE, present |-> {}, special |-> NoSpecial.special] :
        v \in {<<<<"a">>>>, <<<<"b">>, <<"a">>>>, <<<<"a">>, <<"a">>>>}}

\* arguments of the calls
CallTexts == {<<"a", "c">>, <<"b">>}
CallIds == {<<4, 1, 9>>, <<5, 3>>}

\* a caller outside any call
NoCallYet ==
    [pc |-> "idle", on |-> "t1", op |-> "none", text |-> <<>>, ids |-> <<>>,
     flag |-> FALSE, special_token_ids |-> {}, acc |-> <<>>, pos |-> 0,
     ret |-> <<>>, during |-> FALSE]

CallIdle ==
    /\ instances = [i \in Instances |-> EmptyTok]
    /\ inst_cfg = [i \in Instances |-> AbsentFile]
    /\ calls = [c \in Callers |-> NoCallYet]

LoadIdle ==
    /\ data_path = MissingPath
    /\ language_code = NoCode
    /\ lpc = "idle"
    /\ files_to_process = <<>>
    /\ fi = 0
    /\ line_num = 0
    /\ language = <<>>
    /\ data_rows = <<>>
    /\ origin = <<>>
    /\ warnings = <<>>

(***************************************************************************)
(* The tokenizer as a state machine.                                       *)
(***************************************************************************)
TokIdle ==
    /\ config = AbsentFile
    /\ tstatus = "idle"
    /\ tok = EmptyTok
    /\ last = "none"
    /\ text = <<>>
    /\ add = FALSE
    /\ ids = <<>>
    /\ skip = FALSE
    /\ out = <<>>

TokInit ==
    /\ config \in Configs
    /\ tstatus = "new"
    /\ tok = EmptyTok
    /\ last = "none"
    /\ text = <<>>
    /\ add = FALSE
    /\ ids = <<>>
    /\ skip = FALSE
    /\ out = <<>>
    /\ LoadIdle
    /\ BuildIdle
    /\ GetIdle
    /\ CallIdle

\* Tokenizer(json_path)
Construct ==
    /\ tstatus = "new"
    /\ tstatus' = InitOutcome(config)
    /\ tok' = IF InitOutcome(config) = "ok" THEN NewTokenizer(config) ELSE EmptyTok
    /\ UNCHANGED <<config, last, text, add, ids, skip, out>>
    /\ UNCHANGED <<loadVars, buildVars, getVars, callVars>>

\* tokenizer.encode(t, a): the first call of the caller
Encode ==
    /\ tstatus = "ok"
    /\ last = "none"
    /\ \E t \in Texts, a \in BOOLEAN :
        /\ text' = t
        /\ add' = a
        /\ ids' = encode(tok, t, a)
    /\ last' = "encode"
    /\ skip' = FALSE
    /\ out' = <<>>
    /\ UNCHANGED <<config, tstatus, tok>>
    /\ UNCHANGED <<loadVars, buildVars, getVars, callVars>>

\* tokenizer.decode(s, k): on ids of the caller's own as its first call, or
\* on the list the caller's encode returned
Decode ==
    /\ tstatus = "ok"
    /\ last \in {"none", "encode"}
    /\ \E s \in (IF last = "encode" THEN {ids} ELSE IdInputs), k \in BOOLEAN :
        LET chained == last = "encode"
        IN  /\ ids' = s
            /\ skip' = k
            /\ out' = decode(tok, s, k)
            /\ last' = IF chained THEN "encode_decode" ELSE "decode"
            /\ text' = IF chained THEN text ELSE <<>>
            /\ add' = IF chained THEN add ELSE FALSE
    /\ UNCHANGED <<config, tstatus, tok>>
    /\ UNCHANGED <<loadVars, buildVars, getVars, callVars>>

TokNext == Construct \/ Encode \/ Decode

Spec == TokInit /\ [][TokNext]_vars

(***************************************************************************)
(* IPADictAdapter.load_data as a state machine: the checks before the      *)
(* loop, one step per file opened and per line read, and the end.          *)
(***************************************************************************)
LoadInit ==
    /\ \/ /\ data_path \in FilePaths({N_de}, {<<l>> : l \in FieldLines})
          /\ language_code = NoCode
       \/ /\ data_path \in {MissingPath}
                \cup FilePaths(FileNames, SeqsUpTo(FileLines, MaxLines))
                \cup DirPaths
          /\ language_code \in LanguageCodes
    /\ lpc = "start"
    /\ files_to_process = <<>>
    /\ fi = 0
    /\ line_num = 0
    /\ language = <<>>
    /\ data_rows = <<>>
    /\ origin = <<>>
    /\ warnings = <<>>
    /\ TokIdle
    /\ BuildIdle
    /\ GetIdle
    /\ CallIdle

\* exists(), is_file(), glob("*.txt")
LoadBegin ==
    /\ lpc = "start"
    /\ IF data_path.kind = "missing"
       THEN /\ lpc' = "FileNotFoundError"
            /\ UNCHANGED files_to_process
       ELSE IF data_path.kind = "file"
       THEN /\ files_to_process' = data_path.entries
            /\ lpc' = "files"
       ELSE /\ files_to_process' = Glob(data_path.entries)
            /\ lpc' = IF Glob(data_path.entries) = <<>> THEN "ValueError"
                      ELSE "files"
    /\ UNCHANGED <<data_path, language_code, fi, line_num, language,
                   data_rows, origin, warnings>>
    /\ UNCHANGED <<tokVars, buildVars, getVars, callVars>>

\* the lines of the current file are exhausted (or no file is open yet)
AtEndOfFile ==
    IF fi = 0 THEN TRUE ELSE line_num = Len(files_to_process[fi].lines)

\* for file_path in files_to_process: language = ...; open(file_path)
OpenFile ==
    /\ lpc = "files"
    /\ AtEndOfFile
    /\ fi < Len(files_to_process)
    /\ fi' = fi + 1
    /\ line_num' = 0
    /\ language' = ExtractLanguageCode(language_code,
                                       files_to_process[fi + 1].name)
    /\ UNCHANGED <<data_path, language_code, lpc, files_to_process,
                   data_rows, origin, warnings>>
    /\ UNCHANGED <<tokVars, buildVars, getVars, callVars>>

\* variant: a new row is put in front of data_rows, data_rows.insert(0, ...)
ReadLine_Prepend ==
    /\ lpc = "files"
    /\ ~AtEndOfFile
    /\ LET n == line_num + 1
           r == ParseLine(files_to_process[fi].lines[n], language)
       IN  /\ line_num' = n
           /\ data_rows' = IF r.kind = "row" THEN <<r.row>> \o data_rows
                           ELSE data_rows
           /\ origin' = IF r.kind = "row" THEN <<<<fi, n>>>> \o origin
                        ELSE origin
           /\ warnings' = IF r.kind \in {"malformed", "no_ipa"}
                          THEN Append(warnings, <<r.kind, n, fi>>)
                          ELSE warnings
    /\ UNCHANGED <<data_path, language_code, lpc, files_to_process, fi,
                   language>>
    /\ UNCHANGED <<tokVars, buildVars, getVars, callVars>>

\* one pass of: for line_num, line in enumerate(f, 1)
ReadLine ==
    /\ lpc = "files"
    /\ ~AtEndOfFile
    /\ LET n == line_num + 1
           r == ParseLine(files_to_process[fi].lines[n], language)
       IN  /\ line_num' = n
           /\ data_rows' = IF r.kind = "row" THEN Append(data_rows, r.row)
                           ELSE data_rows
           /\ origin' = IF r.kind = "row" THEN Append(origin, <<fi, n>>)
                        ELSE origin
           /\ warnings' = IF r.kind \in {"malformed", "no_ipa"}
                          THEN Append(warnings, <<r.kind, n, fi>>)
                          ELSE warnings
    /\ UNCHANGED <<data_path, language_code, lpc, files_to_process, fi,
                   language>>
    /\ UNCHANGED <<tokVars, buildVars, getVars, callVars>>

\* variant: the check "if not data_rows" is missing
LoadFinish_NoCheck ==
    /\ lpc = "files"
    /\ AtEndOfFile
    /\ fi = Len(files_to_process)
    /\ lpc' = "returned"
    /\ UNCHANGED <<data_path, language_code, files_to_process, fi, line_num,
                   language, data_rows, origin, warnings>>
    /\ UNCHANGED <<tokVars, buildVars, getVars, callVars>>

\* after the loops: raise ValueError or return the DataFrame
LoadFinish ==
    /\ lpc = "files"
    /\ AtEndOfFile
    /\ fi = Len(files_to_process)
    /\ lpc' = IF data_rows = <<>> THEN "ValueError" ELSE "returned"
    /\ UNCHANGED <<data_path, language_code, files_to_process, fi, line_num,
                   language, data_rows, origin, warnings>>
    /\ UNCHANGED <<tokVars, buildVars, getVars, callVars>>

LoadNext == LoadBegin \/ OpenFile \/ ReadLine \/ LoadFinish

LoadSpec == LoadInit /\ [][LoadNext]_vars

(***************************************************************************)
(* The TokenizerBuilder as a state machine: construction, then build calls *)
(* in any number and order.                                                *)
(***************************************************************************)
BuildInit ==
    /\ bstatus = "new"
    /\ builder = NoBuilder
    /\ b_args \in [language : Languages, modality : Modalities]
    /\ b_call = "none"
    /\ b_input = <<>>
    /\ b_earlier = {}
    /\ TokIdle
    /\ LoadIdle
    /\ GetIdle
    /\ CallIdle

\* TokenizerBuilder(language, modality)
NewBuilder ==
    /\ bstatus = "new"
    /\ IF b_args.modality \notin {"spelling", "ipa"}
       THEN /\ bstatus' = "ValueError"
            /\ UNCHANGED builder
       ELSE /\ bstatus' = "ok"
            /\ builder' = [language |-> b_args.language,
                           modality |-> b_args.modality,
                           vocab |-> <<>>,
                           special_tokens |-> DefaultSpecialTokens]
    /\ UNCHANGED <<b_args, b_call, b_input, b_earlier>>
    /\ UNCHANGED <<tokVars, loadVars, getVars, callVars>>

\* what a build call that returns leaves behind
Built(texts) ==
    /\ builder' = [builder EXCEPT !.vocab = BuildVocab(builder, texts)]
    /\ b_call' = "returned"
    /\ b_input' = texts
    /\ b_earlier' = b_earlier \cup BuilderCharSet(b_input)

\* builder.build_from_data(data, column_name)
BuildFromData ==
    /\ bstatus = "ok"
    /\ \E data \in Frames, column_name \in {"word", "ipa"} :
        IF column_name \notin data.columns
        THEN /\ b_call' = "ValueError"
             /\ UNCHANGED <<builder, b_input, b_earlier>>
        ELSE Built(data.values)
    /\ UNCHANGED <<bstatus, b_args>>
    /\ UNCHANGED <<tokVars, loadVars, getVars, callVars>>

\* builder.build_from_text_list(texts)
BuildFromTextList ==
    /\ bstatus = "ok"
    /\ \E texts \in TextLists : Built(texts)
    /\ UNCHANGED <<bstatus, b_args>>
    /\ UNCHANGED <<tokVars, loadVars, getVars, callVars>>

BuildNext == NewBuilder \/ BuildFromData \/ BuildFromTextList

BuildSpec == BuildInit /\ [][BuildNext]_vars

(***************************************************************************)
(* A data adapter and the get_data calls made on it.                       *)
(***************************************************************************)
GetInit ==
    /\ self_data = NoData
    /\ g_force = FALSE
    /\ g_last = NoCall
    /\ g_calls = 0
    /\ TokIdle
    /\ LoadIdle
    /\ BuildIdle
    /\ CallIdle

\* adapter.get_data(force_reload)
GetData ==
    /\ g_calls < MaxCalls
    /\ g_calls' = g_calls + 1
    /\ \E force_reload \in BOOLEAN, loaded \in LoadOutcomes :
        /\ g_force' = force_reload
        /\ IF self_data.none \/ force_reload
           THEN IF loaded.raised
                THEN /\ g_last' = [kind |-> "load_error", value |-> NoData]
                     /\ UNCHANGED self_data
                ELSE /\ self_data' = loaded.frame
                     /\ g_last' = IF ~IsValid(loaded.frame)
                                  THEN [kind |-> "ValueError", value |-> NoData]
                                  ELSE [kind |-> "returned", value |-> loaded.frame]
           ELSE /\ g_last' = [kind |-> "returned", value |-> self_data]
                /\ UNCHANGED self_data
    /\ UNCHANGED <<tokVars, loadVars, buildVars, callVars>>

GetNext == GetData

GetSpec == GetInit /\ [][GetNext]_vars

(***************************************************************************)
(* Callers running encode and decode on the Tokenizer objects, one loop    *)
(* iteration at a time, in any interleaving.                               *)
(***************************************************************************)
CallInit ==
    /\ inst_cfg \in [Instances -> CallConfigs]
    /\ instances = [i \in Instances |-> NewTokenizer(inst_cfg[i])]
    /\ calls = [c \in Callers |-> NoCallYet]
    /\ TokIdle
    /\ LoadIdle
    /\ BuildIdle
    /\ GetIdle

Free(c) == calls[c].pc \in {"idle", "done"}

\* some other caller is inside a call
Busy(c) == \E d \in Callers \ {c} : calls[d].pc = "loop"

\* a caller enters encode: ids = [], and sos_id first if asked for
CallEncode ==
    /\ \E c \in Callers, i \in Instances, txt \in CallTexts,
          add_special_tokens \in BOOLEAN :
        /\ Free(c)
        /\ calls' = [calls EXCEPT ![c] =
                [pc |-> "loop", on |-> i, op |-> "encode", text |-> txt,
                 ids |-> <<>>, flag |-> add_special_tokens,
                 special_token_ids |-> {},
                 acc |-> IF add_special_tokens THEN <<instances[i].sos_id>>
                         ELSE <<>>,
                 pos |-> 0, ret |-> <<>>, during |-> Busy(c)]]
    /\ UNCHANGED <<instances, inst_cfg>>
    /\ UNCHANGED <<tokVars, loadVars, buildVars, getVars>>

\* variant: a character without id is entered into char_to_id
EncodeStep_Learn ==
    /\ \E c \in Callers :
        LET k  == calls[c]
            t  == instances[k.on]
            ch == k.text[k.pos + 1]
        IN  /\ k.pc = "loop"
            /\ k.op = "encode"
            /\ k.pos < Len(k.text)
            /\ calls' = [calls EXCEPT ![c].acc = Append(k.acc, CharId(t, ch)),
                                      ![c].pos = k.pos + 1]
            /\ instances' = [instances EXCEPT ![k.on].char_to_id =
                    [e \in DOMAIN t.char_to_id \cup {<<ch>>} |->
                        IF e \in DOMAIN t.char_to_id THEN t.char_to_id[e]
                        ELSE Len(t.vocab)]]
    /\ UNCHANGED inst_cfg
    /\ UNCHANGED <<tokVars, loadVars, buildVars, getVars>>

\* one pass of: for char in text: ids.append(self.char_to_id.get(...))
EncodeStep ==
    /\ \E c \in Callers :
        LET k == calls[c]
        IN  /\ k.pc = "loop"
            /\ k.op = "encode"
            /\ k.pos < Len(k.text)
            /\ calls' = [calls EXCEPT
                    ![c].acc = Append(k.acc,
                                      CharId(instances[k.on], k.text[k.pos + 1])),
                    ![c].pos = k.pos + 1]
    /\ UNCHANGED <<instances, inst_cfg>>
    /\ UNCHANGED <<tokVars, loadVars, buildVars, getVars>>

\* after the loop: eos_id last if asked for, return ids
EncodeReturn ==
    /\ \E c \in Callers :
        LET k == calls[c]
        IN  /\ k.pc = "loop"
            /\ k.op = "encode"
            /\ k.pos = Len(k.text)
            /\ calls' = [calls EXCEPT
                    ![c].pc = "done",
                    ![c].ret = IF k.flag
                               THEN Append(k.acc, instances[k.on].eos_id)
                               ELSE k.acc]
    /\ UNCHANGED <<instances, inst_cfg>>
    /\ UNCHANGED <<tokVars, loadVars, buildVars, getVars>>

\* a caller enters decode: chars = [], special_token_ids = {pad, sos, eos}
CallDecode ==
    /\ \E c \in Callers, i \in Instances, idseq \in CallIds,
          skip_special_tokens \in BOOLEAN :
        /\ Free(c)
        /\ calls' = [calls EXCEPT ![c] =
                [pc |-> "loop", on |-> i, op |-> "decode", text |-> <<>>,
                 ids |-> idseq, flag |-> skip_special_tokens,
                 special_token_ids |-> {instances[i].pad_id,
                                        instances[i].sos_id,
                                        instances[i].eos_id},
                 acc |-> <<>>, pos |-> 0, ret |-> <<>>,
                 during |-> Busy(c)]]
    /\ UNCHANGED <<instances, inst_cfg>>
    /\ UNCHANGED <<tokVars, loadVars, buildVars, getVars>>

\* one pass of: for token_id in ids
DecodeStep ==
    /\ \E c \in Callers :
        LET k == calls[c]
            token_id == k.ids[k.pos + 1]
        IN  /\ k.pc = "loop"
            /\ k.op = "decode"
            /\ k.pos < Len(k.ids)
            /\ calls' = [calls EXCEPT
                    ![c].acc = IF k.flag /\ token_id \in k.special_token_ids
                               THEN k.acc
                               ELSE Append(k.acc,
                                           TokenOf(instances[k.on], token_id)),
                    ![c].pos = k.pos + 1]
    /\ UNCHANGED <<instances, inst_cfg>>
    /\ UNCHANGED <<tokVars, loadVars, buildVars, getVars>>

\* after the loop: return ''.join(chars)
DecodeReturn ==
    /\ \E c \in Callers :
        LET k == calls[c]
        IN  /\ k.pc = "loop"
            /\ k.op = "decode"
            /\ k.pos = Len(k.ids)
            /\ calls' = [calls EXCEPT ![c].pc = "done", ![c].ret = Join(k.acc)]
    /\ UNCHANGED <<instances, inst_cfg>>
    /\ UNCHANGED <<tokVars, loadVars, buildVars, getVars>>

CallNext ==
    \/ CallEncode
    \/ EncodeStep
    \/ EncodeReturn
    \/ CallDecode
    \/ DecodeStep
    \/ DecodeReturn

CallSpec == CallInit /\ [][CallNext]_vars

(***************************************************************************)
(* Properties of the tokenizer.                                            *)
(***************************************************************************)
\* every character of txt is a key of char_to_id
InVocab(t, txt) == \A i \in 1..Len(txt) : <<txt[i]>> \in DOMAIN t.char_to_id

Encoded == last \in {"encode", "encode_decode"}
Decoded == last \in {"decode", "encode_decode"}

\* C1: a text of in-vocabulary characters, encoded without special tokens
\* and decoded without skipping, comes back unchanged.
C1_RoundTripPlain ==
    (last = "encode_decode" /\ ~add /\ ~skip /\ InVocab(tok, text))
        => out = text

C1_Witness ==
    /\ last = "encode_decode" /\ ~add /\ ~skip /\ InVocab(tok, text)
    /\ Len(text) >= 2 /\ text[1] # text[2]
    /\ out = text

\* the pad, sos and eos strings of a tokenizer
StructuralTokens(t) ==
    {t.special_tokens["pad"], t.special_tokens["sos"], t.special_tokens["eos"]}

\* C2 (as stated): for every tokenizer, a text of in-vocabulary characters
\* encoded with SOS/EOS and decoded with skipping comes back unchanged.
C2_Original ==
    (last = "encode_decode" /\ add /\ skip /\ InVocab(tok, text))
        => out = text

\* C2 (amended): the round trip with SOS/EOS and skipping returns the text
\* when no character of the text is itself the pad, sos or eos token string.
C2_RoundTripSpecial ==
    (/\ last = "encode_decode" /\ add /\ skip /\ InVocab(tok, text)
     /\ \A i \in 1..Len(text) : <<text[i]>> \notin StructuralTokens(tok))
        => out = text

C2_Witness ==
    /\ last = "encode_decode" /\ add /\ skip /\ InVocab(tok, text)
    /\ Len(text) >= 2
    /\ <<"a">> \in StructuralTokens(tok)
    /\ \A i \in 1..Len(text) : <<text[i]>> \notin StructuralTokens(tok)
    /\ Len(ids) = Len(text) + 2
    /\ out = text

\* C3: every constructed tokenizer has pad_id = 0, sos_id = 1, eos_id = 2,
\* unk_id = 3, and encode("", True) returns [1, 2].
C3_Original ==
    /\ tstatus = "ok" =>
        /\ tok.pad_id = 0 /\ tok.sos_id = 1
        /\ tok.eos_id = 2 /\ tok.unk_id = 3
    /\ (last = "encode" /\ add /\ text = <<>>) => ids = <<1, 2>>

NoRepeats(s) == \A i, j \in 1..Len(s) : s[i] = s[j] => i = j

Bijective(t) ==
    /\ DOMAIN t.id_to_char = 0..(Len(t.vocab) - 1)
    /\ DOMAIN t.char_to_id = Range(t.vocab)
    /\ \A i \in DOMAIN t.id_to_char :
        /\ t.id_to_char[i] \in DOMAIN t.char_to_id
        /\ t.char_to_id[t.id_to_char[i]] = i
    /\ \A ch \in DOMAIN t.char_to_id :
        /\ t.char_to_id[ch] \in DOMAIN t.id_to_char
        /\ t.id_to_char[t.char_to_id[ch]] = ch

\* C4 (as stated): for every tokenizer the two tables are mutually inverse
\* bijections over the full list and vocab_size is 4 plus the number of
\* distinct symbols of the persisted vocab.
C4_Original ==
    tstatus = "ok" =>
        /\ Bijective(tok)
        /\ NoRepeats(tok.vocab)
        /\ vocab_size(tok) = 4 + Cardinality(Range(config.vocab))

\* C4 (amended): id_to_char is total over 0..vocab_size-1, char_to_id is
\* total over the distinct entries of the full list and sends each entry to
\* an id that id_to_char sends back to it (its last position); the tables
\* are mutually inverse bijections exactly when the full list has no
\* repeated entry; vocab_size is 4 plus the length of the persisted vocab.
C4_Tables ==
    tstatus = "ok" =>
        /\ DOMAIN tok.id_to_char = 0..(vocab_size(tok) - 1)
        /\ DOMAIN tok.char_to_id = Range(tok.vocab)
        /\ \A ch \in DOMAIN tok.char_to_id :
            /\ tok.char_to_id[ch] \in DOMAIN tok.id_to_char
            /\ tok.id_to_char[tok.char_to_id[ch]] = ch
        /\ \A i \in DOMAIN tok.id_to_char :
            /\ tok.id_to_char[i] \in DOMAIN tok.char_to_id
            /\ tok.char_to_id[tok.id_to_char[i]] >= i
        /\ Bijective(tok) <=> NoRepeats(tok.vocab)
        /\ vocab_size(tok) = 4 + Len(config.vocab)

C4_Witness ==
    /\ tstatus = "ok"
    /\ ~NoRepeats(config.vocab)
    /\ ~Bijective(tok)
    /\ vocab_size(tok) > 4 + Cardinality(Range(config.vocab))

\* position of text[i] in the result of encode
Off == IF add THEN 1 ELSE 0

\* what decode returns for the one id of position p of ids
PieceAt(p, skipping) == decode(tok, <<ids[p]>>, skipping)

\* C5: a character absent from the vocabulary is encoded as id 3 at its
\* position while the other characters keep their ids, and decoding with
\* skipping still puts the unk token string at that position.
C5_Original ==
    /\ Encoded =>
        \A i \in 1..Len(text) :
            IF <<text[i]>> \in DOMAIN tok.char_to_id
            THEN ids[i + Off] = tok.char_to_id[<<text[i]>>]
            ELSE ids[i + Off] = 3
    /\ (last = "encode_decode" /\ skip) =>
        /\ \A i \in 1..Len(text) :
            <<text[i]>> \notin DOMAIN tok.char_to_id
                => PieceAt(i + Off, TRUE) = tok.special_tokens["unk"]
        /\ out = Join([p \in 1..Len(ids) |-> PieceAt(p, TRUE)])

\* the ids of idseq that decode does not omit
Kept(t, idseq, skipping) ==
    LET Keep(x) == ~(skipping /\ x \in {t.pad_id, t.sos_id, t.eos_id})
    IN  SelectSeq(idseq, Keep)

\* the string of the full list at position id, the unk string outside it
EntryOf(t, id) ==
    IF id >= 0 /\ id < vocab_size(t) THEN t.vocab[id + 1]
    ELSE t.special_tokens["unk"]

\* C6: decode returns the in-order concatenation of the entries of the ids
\* that are not pad, sos or eos (of all ids without skipping); an id outside
\* the table contributes the unk token string.
C6_DecodeShape ==
    Decoded =>
        LET kept == Kept(tok, ids, skip)
        IN  /\ out = Join([p \in 1..Len(kept) |-> EntryOf(tok, kept[p])])
            /\ ~skip => Len(kept) = Len(ids)

C6_Witness ==
    /\ last = "decode" /\ skip
    /\ \E i, j \in 1..Len(ids) :
        /\ ids[i] \in {tok.pad_id, tok.sos_id, tok.eos_id}
        /\ ids[j] \notin DOMAIN tok.id_to_char
    /\ out = tok.special_tokens["unk"]

\* the token string that position p of an encode result stands for
TokenAt(p) ==
    IF add /\ p = 1 THEN tok.special_tokens["sos"]
    ELSE IF add /\ p = Len(text) + 2 THEN tok.special_tokens["eos"]
    ELSE IF <<text[p - Off]>> \in DOMAIN tok.char_to_id THEN <<text[p - Off]>>
    ELSE tok.special_tokens["unk"]

EncodeShape ==
    /\ Len(ids) = Len(text) + (IF add THEN 2 ELSE 0)
    /\ add => ids[1] = tok.sos_id /\ ids[Len(ids)] = tok.eos_id
    /\ \A p \in 1..Len(ids) :
        /\ ids[p] \in DOMAIN tok.id_to_char
        /\ tok.id_to_char[ids[p]] = TokenAt(p)

\* C7 (as stated): encode returns sos, one id per character, eos (only the
\* character ids without special tokens), and never the pad id.
C7_Original ==
    last = "encode" =>
        /\ EncodeShape
        /\ \A p \in 1..Len(ids) : ids[p] # tok.pad_id

\* C7 (amended): encode returns sos, one id per character, eos (only the
\* character ids without special tokens); the pad id occurs in the result
\* only where the token of that position (the character, or sos, eos, unk)
\* is spelled exactly like the pad token.
C7_EncodeShape ==
    last = "encode" =>
        /\ EncodeShape
        /\ \A p \in 1..Len(ids) :
            ids[p] = tok.pad_id => TokenAt(p) = tok.special_tokens["pad"]

C7_Witness ==
    /\ last = "encode" /\ add /\ Len(text) >= 2
    /\ \E p \in 2..(Len(ids) - 1) : ids[p] = tok.pad_id
    /\ \E p \in 2..(Len(ids) - 1) : ids[p] # tok.pad_id

Constructed == tstatus # "new"

\* C8 (as stated): construction fails when the file is absent, when there
\* is no vocab field, and when any of pad, sos, eos, unk is missing,
\* including when the whole special_tokens field is missing.
C8_Original ==
    Constructed =>
        ((\/ ~config.exists
          \/ ~config.hasVocab
          \/ ~config.hasSpecial
          \/ config.present # Keys) => tstatus # "ok")

\* C8 (amended): construction fails with FileNotFoundError when the file is
\* absent, and with KeyError when there is no vocab field or when a
\* special_tokens field is present without one of pad, sos, eos, unk; a file
\* without any special_tokens field is given the four default tokens, and
\* that absence is no failure.
C8_Failures ==
    Constructed =>
        /\ ~config.exists => tstatus = "FileNotFoundError"
        /\ (config.exists /\ ~config.hasVocab) => tstatus = "KeyError"
        /\ (config.exists /\ config.hasSpecial /\ config.present # Keys)
                => tstatus = "KeyError"
        /\ (config.exists /\ config.hasVocab /\ ~config.hasSpecial) =>
                /\ tstatus = "ok"
                /\ tok.special_tokens = DefaultSpecialTokens
        /\ tstatus # "ok" => tok = EmptyTok

C8_Witness ==
    /\ tstatus = "KeyError"
    /\ config.exists /\ config.hasSpecial /\ config.present = Keys
    /\ ~config.hasVocab

(***************************************************************************)
(* Properties of the loader.                                               *)
(***************************************************************************)
\* the positions of the slashes of s, ascending
SlashPos(s) ==
    LET IsSlash(i) == s[i] = SLASH
    IN  SelectSeq([i \in 1..Len(s) |-> i], IsSlash)

\* the slash-delimited spans of s as pairs of slash positions: scanning from
\* the left, a slash opens a span when the next slash is not adjacent to it,
\* and that next slash closes the span
RECURSIVE SpanPairs(_, _)
SpanPairs(ps, k) ==
    IF k + 1 > Len(ps) THEN <<>>
    ELSE IF ps[k + 1] > ps[k] + 1
         THEN <<<<ps[k], ps[k + 1]>>>> \o SpanPairs(ps, k + 2)
         ELSE SpanPairs(ps, k + 1)

Spans(s) ==
    LET pairs == SpanPairs(SlashPos(s), 1)
    IN  [i \in 1..Len(pairs) |-> SubSeq(s, pairs[i][1] + 1, pairs[i][2] - 1)]

\* s without its whitespace at both ends, by positions
Trimmed(s) ==
    LET keep == {i \in 1..Len(s) : s[i] \notin Whitespace}
    IN  IF keep = {} THEN <<>>
        ELSE SubSeq(s, CHOOSE i \in keep : \A j \in keep : i <= j,
                       CHOOSE i \in keep : \A j \in keep : i >= j)

TabCount(s) == Cardinality({i \in 1..Len(s) : s[i] = TAB})

\* what follows the first tab of s
AfterTab(s) ==
    LET t == CHOOSE i \in 1..Len(s) : s[i] = TAB /\ \A j \in 1..(i - 1) : s[j] # TAB
    IN  SubSeq(s, t + 1, Len(s))

\* the raw line a row was made from
RawOf(k) == files_to_process[origin[k][1]].lines[origin[k][2]]

\* the pronunciation field of that line
FieldOf(k) == AfterTab(Trimmed(RawOf(k)))

\* the lines read so far, as pairs of file index and line number
LinesRead ==
    {<<f, n>> \in (1..MaxFiles) \X (1..(MaxLines + 1)) :
        /\ f <= fi
        /\ n <= Len(files_to_process[f].lines)
        /\ f = fi => n <= line_num}

RowsOf(f, n) == {k \in 1..Len(data_rows) : origin[k] = <<f, n>>}

\* the ipa column of the rows
IpaColumn == [k \in 1..Len(data_rows) |-> data_rows[k].ipa]

\* C9: each accepted line gives exactly one record whose pronunciation is
\* the last slash-delimited span of its pronunciation field, trimmed;
\* "x<TAB>/a/, /b/, /c/" gives "c"; every character of the pronunciation
\* vocabulary occurs in the last span of some accepted line.
C9_LastAlternate ==
    /\ Len(origin) = Len(data_rows)
    /\ \A k \in 1..Len(data_rows) :
        LET sp == Spans(FieldOf(k))
        IN  /\ RowsOf(origin[k][1], origin[k][2]) = {k}
            /\ sp # <<>>
            /\ data_rows[k].ipa = Trimmed(sp[Len(sp)])
            /\ RawOf(k) = L_abc => data_rows[k].ipa = <<"c">>
    /\ \A ch \in CharSet(IpaColumn) :
        \E k \in 1..Len(data_rows) :
            LET sp == Spans(FieldOf(k)) IN ch \in Range(sp[Len(sp)])

C9_Witness ==
    /\ lpc = "returned"
    /\ \E k \in 1..Len(data_rows) :
        /\ RawOf(k) = L_abc
        /\ data_rows[k].ipa = <<"c">>
    /\ \E k \in 1..Len(data_rows) :
        LET sp == Spans(FieldOf(k))
        IN  /\ Len(sp) = 2
            /\ data_rows[k].ipa # Trimmed(sp[1])
    /\ "a" \notin CharSet(IpaColumn)

\* C10: a line with no tab or with two or more tabs, wherever they are, and
\* a line without slash-delimited span, gives no record; it does not abort
\* the load: every other line that gives a record on its own has its record
\* in the result, and the load fails at its end only for want of records.
C10_Original ==
    /\ \A ln \in LinesRead :
        LET raw == files_to_process[ln[1]].lines[ln[2]]
        IN  (TabCount(raw) # 1 \/ Spans(raw) = <<>>) => RowsOf(ln[1], ln[2]) = {}
    /\ \A ln \in LinesRead :
        LET raw == files_to_process[ln[1]].lines[ln[2]]
        IN  ParseLine(raw, <<>>).kind = "row" => RowsOf(ln[1], ln[2]) # {}
    /\ (fi > 0 /\ lpc = "ValueError") => data_rows = <<>>
    /\ (fi > 0 /\ lpc # "ValueError") => lpc \in {"files", "returned"}

\* the raw line number n of file f
RawAt(ln) == files_to_process[ln[1]].lines[ln[2]]

\* what precedes the first tab of s
BeforeTab(s) ==
    LET t == CHOOSE i \in 1..Len(s) : s[i] = TAB /\ \A j \in 1..(i - 1) : s[j] # TAB
    IN  SubSeq(s, 1, t - 1)

\* the last slash-delimited span of s is there and is not only whitespace
HasUsableSpan(s) ==
    LET sp == Spans(s)
    IN  IF sp = <<>> THEN FALSE ELSE Trimmed(sp[Len(sp)]) # <<>>

\* a line with one tab, nothing but whitespace before it and a usable
\* pronunciation after it
EmptyWordLine(raw) ==
    IF TabCount(raw) # 1 THEN FALSE
    ELSE Trimmed(BeforeTab(raw)) = <<>> /\ HasUsableSpan(AfterTab(raw))

\* C11: a line whose word field is empty after trimming and whose
\* pronunciation field holds a valid span yields a record with word "".
C11_Original ==
    \A ln \in LinesRead :
        EmptyWordLine(RawAt(ln)) =>
            \E k \in RowsOf(ln[1], ln[2]) : data_rows[k].word = <<>>

\* origin a comes before origin b in file-then-line order
Before(a, b) == a[1] < b[1] \/ (a[1] = b[1] /\ a[2] < b[2])

\* the positions of the "*.txt" entries of the directory, ascending
TxtPositions ==
    LET IsTxt(i) == EndsWith(data_path.entries[i].name, DOT_TXT)
    IN  SelectSeq([i \in 1..Len(data_path.entries) |-> i], IsTxt)

\* the lines read so far that give a record on their own
AcceptedRead == {ln \in LinesRead : ParseLine(RawAt(ln), <<>>).kind = "row"}

\* C12: the rows are in file-then-line order of the lines they come from,
\* the files in the order of the directory listing, and a skipped line
\* leaves neither gap nor reordering: the rows are exactly the accepted
\* lines read so far, each once.
C12_InputOrder ==
    /\ \A k, l \in 1..Len(origin) : k < l => Before(origin[k], origin[l])
    /\ \A k \in 1..Len(data_rows) :
        /\ origin[k] \in AcceptedRead
        /\ data_rows[k] = ParseLine(RawOf(k), data_rows[k].language).row
    /\ Len(data_rows) = Cardinality(AcceptedRead)
    /\ (lpc \in {"files", "returned"} /\ data_path.kind = "dir") =>
        /\ Len(files_to_process) = Len(TxtPositions)
        /\ \A i \in 1..Len(files_to_process) :
            files_to_process[i] = data_path.entries[TxtPositions[i]]

C12_Witness ==
    /\ lpc = "returned"
    /\ data_path.kind = "dir"
    /\ Len(data_rows) >= 3
    /\ \E k, l \in 1..Len(origin) : origin[k][1] # origin[l][1]
    /\ \E k, l \in 1..Len(origin) : origin[k][1] = origin[l][1] /\ k # l
    /\ warnings # <<>>

\* the name of the file a row is from
NameOf(k) == files_to_process[origin[k][1]].name

Supplied == language_code.given /\ language_code.code # <<>>

\* C13: in single-file mode the language of every record is the supplied
\* code, or the stem of the file name when none is supplied; in directory
\* mode it is always the stem of the file the record is from.
C13_Original ==
    \A k \in 1..Len(data_rows) :
        IF data_path.kind = "file"
        THEN data_rows[k].language =
                (IF Supplied THEN language_code.code ELSE Stem(NameOf(k)))
        ELSE data_rows[k].language = Stem(NameOf(k))

LoadEnded == lpc \in {"returned", "ValueError", "FileNotFoundError"}

\* every line of every file to process
AllLines ==
    {<<f, n>> \in (1..MaxFiles) \X (1..(MaxLines + 1)) :
        /\ f <= Len(files_to_process)
        /\ n <= Len(files_to_process[f].lines)}

\* C14: load_data fails exactly when the path does not exist, when the
\* directory has no .txt file, or when no line of the processed files gives
\* a record; in every other case it returns a non-empty dataset.
C14_Failures ==
    LoadEnded =>
        LET nopath == data_path.kind = "missing"
            notxt  == data_path.kind = "dir" /\ TxtPositions = <<>>
            norows == \A ln \in AllLines : ~(/\ TabCount(Trimmed(RawAt(ln))) = 1
                                             /\ HasUsableSpan(AfterTab(Trimmed(RawAt(ln)))))
        IN  /\ lpc = "FileNotFoundError" <=> nopath
            /\ lpc = "ValueError" <=> (~nopath /\ (notxt \/ norows))
            /\ lpc = "returned" <=> ~(nopath \/ notxt \/ norows)
            /\ lpc = "returned" => data_rows # <<>>
            /\ lpc # "returned" => data_rows = <<>>

C14_Witness ==
    /\ lpc = "ValueError"
    /\ data_path.kind = "dir"
    /\ Len(files_to_process) >= 2
    /\ warnings # <<>>
    /\ \A f \in 1..Len(files_to_process) : files_to_process[f].lines # <<>>

\* the pronunciation field of a line read, when the line has one
LastSpanBlank(raw) ==
    LET line == Trimmed(raw)
    IN  IF TabCount(line) # 1 THEN FALSE
        ELSE LET sp == Spans(AfterTab(line))
             IN  IF sp = <<>> THEN FALSE ELSE Trimmed(sp[Len(sp)]) = <<>>

\* C19: the pronunciation of every record is non-empty, holds no "/" and
\* neither starts nor ends with whitespace; a line whose last span is only
\* whitespace gives no record, whatever its earlier alternates.
C19_CleanIpa ==
    /\ \A k \in 1..Len(data_rows) :
        LET ipa == data_rows[k].ipa
        IN  /\ ipa # <<>>
            /\ SLASH \notin Range(ipa)
            /\ ipa[1] \notin Whitespace
            /\ ipa[Len(ipa)] \notin Whitespace
    /\ \A ln \in LinesRead :
        LastSpanBlank(RawAt(ln)) => RowsOf(ln[1], ln[2]) = {}

C19_Witness ==
    /\ lpc = "returned"
    /\ \E ln \in LinesRead :
        /\ RawAt(ln) = L_wsend
        /\ RowsOf(ln[1], ln[2]) = {}
    /\ <<"no_ipa", 1, 1>> \in Range(warnings)
    /\ \E k \in 1..Len(data_rows) : Len(Spans(FieldOf(k))) >= 2

\* the characters of the non-empty strings among the texts
CharsOf(texts) ==
    {c \in {LT, "A", "a", "b"} :
        \E i \in 1..Len(texts) :
            /\ ~texts[i].none
            /\ \E j \in 1..Len(texts[i].s) : texts[i].s[j] = c}

AB == Str(<<"a", "b">>)
BA == Str(<<"b", "a">>)

\* C15: after a build call the vocab holds exactly the distinct characters
\* of the non-empty input strings, each a single character, ascending by
\* code point without repetition, none of them a special token; so it is
\* the same list for every order of the same inputs.
C15_SortedCharacters ==
    (bstatus = "ok" /\ b_call = "returned") =>
        LET vocab == builder.vocab
        IN  /\ \A i \in 1..Len(vocab) : Len(vocab[i]) = 1
            /\ {vocab[i][1] : i \in 1..Len(vocab)} = CharsOf(b_input)
            /\ \A i, j \in 1..Len(vocab) :
                i < j => Ord(vocab[i][1]) < Ord(vocab[j][1])
            /\ \A i \in 1..Len(vocab), k \in Keys :
                vocab[i] # builder.special_tokens[k]
            /\ b_input \in {<<AB, BA>>, <<BA, AB>>} => vocab = <<<<"a">>, <<"b">>>>

C15_Witness ==
    /\ bstatus = "ok"
    /\ b_call = "returned"
    /\ b_input = <<BA, Str(<<LT, "A">>)>>
    /\ builder.vocab = <<<<LT>>, <<"A">>, <<"a">>, <<"b">>>>

\* C16: after any sequence of build calls the vocab is that of the texts of
\* the last call that returned: no character found only in the texts of an
\* earlier call is left; language, modality and special_tokens are as
\* constructed.
C16_LastCallOnly ==
    bstatus = "ok" =>
        /\ \A c \in b_earlier \ CharsOf(b_input) : <<c>> \notin Range(builder.vocab)
        /\ \A c \in CharsOf(b_input) : <<c>> \in Range(builder.vocab)
        /\ Len(builder.vocab) = Cardinality(CharsOf(b_input))
        /\ builder.language = b_args.language
        /\ builder.modality = b_args.modality
        /\ builder.special_tokens =
            [pad |-> PAD_LIT, sos |-> SOS_LIT, eos |-> EOS_LIT, unk |-> UNK_LIT]

C16_Witness ==
    /\ bstatus = "ok"
    /\ b_call = "returned"
    /\ b_earlier = {LT, "A"}
    /\ b_input = <<AB>>
    /\ builder.vocab = <<<<"a">>, <<"b">>>>
    /\ builder.language = <<"d", "e">>

\* C17: a collection that fails validation is never returned by get_data,
\* neither by the call that loaded it nor by a later call without
\* force_reload.
C17_Original ==
    g_last.kind = "returned" => {"word", "ipa", "language"} \subseteq g_last.value.columns

\* the tables a Tokenizer has when constructed from cfg
AsConstructed(cfg) ==
    LET st == DefaultSpecialTokens
        v  == <<st.pad, st.sos, st.eos, st.unk>> \o cfg.vocab
    IN  [special_tokens |-> st,
         vocab |-> v,
         char_to_id |-> [e \in Range(v) |->
                            CHOOSE n \in 0..(Len(v) - 1) :
                                /\ v[n + 1] = e
                                /\ \A j \in (n + 2)..Len(v) : v[j] # e],
         id_to_char |-> [i \in 0..(Len(v) - 1) |-> v[i + 1]],
         pad_id |-> 0, sos_id |-> 1, eos_id |-> 2, unk_id |-> 3]

\* the calls that have returned, with what they returned
Returned ==
    {[on |-> calls[c].on, op |-> calls[c].op, text |-> calls[c].text,
      ids |-> calls[c].ids, flag |-> calls[c].flag, ret |-> calls[c].ret] :
        c \in {d \in Callers : calls[d].pc = "done"}}

\* C18: whatever encode and decode calls the callers make, and however
\* their steps interleave, every Tokenizer keeps the vocab, char_to_id,
\* id_to_char and special-token ids it was constructed with, and a call
\* returns what the same call returns on the tokenizer as constructed,
\* so equal calls on one instance return equal results.
C18_ReadOnly ==
    /\ \A i \in Instances :
        LET t == instances[i]
            a == AsConstructed(inst_cfg[i])
        IN  /\ t.vocab = a.vocab
            /\ t.char_to_id = a.char_to_id
            /\ t.id_to_char = a.id_to_char
            /\ <<t.pad_id, t.sos_id, t.eos_id, t.unk_id>> = <<0, 1, 2, 3>>
    /\ \A r \in Returned :
        r.ret = IF r.op = "encode"
                THEN encode(NewTokenizer(inst_cfg[r.on]), r.text, r.flag)
                ELSE decode(NewTokenizer(inst_cfg[r.on]), r.ids, r.flag)
    /\ \A r, q \in Returned :
        (r.on = q.on /\ r.op = q.op /\ r.text = q.text /\ r.ids = q.ids
            /\ r.flag = q.flag) => r.ret = q.ret

\* both callers have returned from calls on one instance, one of them an
\* encode of a text with a character that has no id, begun while the other
\* call was under way
C18_Witness ==
    /\ calls["c1"].pc = "done"
    /\ calls["c1"].during
    /\ calls["c2"].pc = "done"
    /\ calls["c1"].on = calls["c2"].on
    /\ calls["c1"].op = "encode"
    /\ calls["c1"].text = <<"a", "c">>
    /\ calls["c1"].ret = <<1, 4, 3, 2>>
    /\ calls["c2"].op = "decode"
    /\ calls["c2"].ids = <<4, 1, 9>>
    /\ ~calls["c2"].flag
    /\ inst_cfg["t1"] # inst_cfg["t2"]

====
